---------------------------- MODULE Spec2Model ----------------------------
(***************************************************************************)
(* Model of the custom binary editor: one BinaryDocument (its edit list,   *)
(* saved-edit snapshot and byte buffer) and the BinaryEditorProvider that  *)
(* bridges it to its webview panels (request identifiers, the callback     *)
(* map, the messages posted to and received from the panels).              *)
(*                                                                         *)
(* Everything runs on one event loop.  An action of this module is one     *)
(* macrotask of that loop together with the microtasks it triggers: a      *)
(* host call up to its first real suspension (a message round trip or a    *)
(* file system call), the delivery of one webview message, or the          *)
(* completion of one file system call with the continuation behind it.     *)
(***************************************************************************)
EXTENDS Integers, Sequences, FiniteSets, TLC

\* ------------------------------------------------------------------ bounds
MaxEdits == 2       \* longest edit list / host undo stack explored
MaxRequests == 2    \* request identifiers issued per run
MaxReverts == 1     \* revert calls waiting for their read at once

\* ------------------------------------------------------------- value sets
Edits == {"e1", "e2"}                 \* opaque BinaryEdit values
Panels == {"p1", "p2"}                \* webview panels
Bodies == {<<1>>, <<257>>}            \* number[] bodies a webview may answer with
Ids == 1..MaxRequests
Locs == {"uri", "dest"}               \* the document's own uri; a backup / save-as destination
FileOnDisk == <<3>>                   \* bytes of the resource when the run starts
BackupOnDisk == <<4>>                 \* bytes of the backup file when the run starts

None == <<>>
Some(x) == <<x>>

VARIABLES
    docState,       \* "none" | "open" | "failed": openCustomDocument not called / returned / threw
    untitled,       \* document.uri.scheme === 'untitled'
    documentData,   \* BinaryDocument._documentData
    edits,          \* contents of the array BinaryDocument._edits refers to
    savedEdits,     \* contents of the array BinaryDocument._savedEdits refers to
    aliased,        \* _edits and _savedEdits refer to the same array object
    webviews,       \* panels registered for the document, in the order they were added
    requestId,      \* BinaryEditorProvider._requestId
    callbacks,      \* keys of BinaryEditorProvider._callbacks
    requests,       \* per identifier: the save / saveAs / backup call that awaits its promise
    reverting,      \* revert calls suspended on readFile
    disk,           \* file system: Locs -> None | Some(bytes)
    undoStack,      \* host: edits whose undo closure is next to be invoked, oldest first
    redoStack,      \* host: edits whose redo closure is next to be invoked, oldest first
    hostSaved,      \* host: its undo stack when save() last returned (its save point)
    posted,         \* messages handed to webview.postMessage by the last step
    received,       \* the webview message the last step processed
    called,         \* identifiers whose completion callback the last step invoked
    finished,       \* the host call the last step completed: None | Some(record)
    lastSaved,      \* history: the edit list when line 129 last assigned _savedEdits
    preUndo         \* history: the edit list before the last step, when that step was an undo

vars == <<docState, untitled, documentData, edits, savedEdits, aliased, webviews,
          requestId, callbacks, requests, reverting, disk, undoStack, redoStack,
          hostSaved, posted, received, called, finished, lastSaved, preUndo>>

docVars == <<docState, untitled, documentData>>
editVars == <<edits, savedEdits, aliased>>
bridgeVars == <<requestId, callbacks, requests>>
hostVars == <<undoStack, redoStack, hostSaved>>

\* ------------------------------------------------------------ pure helpers
Range(s) == {s[i] : i \in 1..Len(s)}

\* Faulty variant: unshift instead of push: the element is put in front
push_front(arr, e) == <<e>> \o arr

\* Array.prototype.push
push(arr, e) == Append(arr, e)

\* Faulty variant: shift instead of pop: the first element is removed
pop_shift(arr) == IF arr = <<>> THEN arr ELSE Tail(arr)

\* Array.prototype.pop: removes the last element; nothing happens on an empty array
pop(arr) == IF arr = <<>> THEN arr ELSE SubSeq(arr, 1, Len(arr) - 1)

\* Array.from(arr): a new array with the same elements
ArrayFrom(arr) == [i \in 1..Len(arr) |-> arr[i]]

\* new Uint8Array(response): every number is stored modulo 2^8
Uint8Array(body) == [i \in 1..Len(body) |-> body[i] % 256]

\* BinaryDocument.readFile: the bytes a successful read yields
readFile(isUntitled, loc) == IF isUntitled THEN <<>> ELSE disk[loc][1]

\* Faulty variant: the backup is ignored, the resource itself is read
dataFile_uri(hasBackup) == "uri"

\* BinaryDocument.create: the file that is read
dataFile(hasBackup) == IF hasBackup THEN "dest" ELSE "uri"

\* editsAt is history, kept for a save: the edit list when getFileData's promise was resolved
NoRequest == [kind |-> "none", pc |-> "unissued", target |-> "uri", cancelled |-> FALSE,
              fileData |-> <<>>, editsAt |-> <<>>]
DoneRequest == [NoRequest EXCEPT !.pc = "done"]
NoMsg == [type |-> "none", requestId |-> 0]

\* what a completed host call reports
Outcome(kind, target, result, err, wrote) ==
    Some([kind |-> kind, target |-> target, result |-> result, err |-> err, wrote |-> wrote])

\* outbound messages
RequestMsg(p, type, id) ==
    [to |-> p, type |-> type, requestId |-> id, edits |-> None, content |-> None, untitled |-> FALSE]
UpdateMsg(p, es, content) ==
    [to |-> p, type |-> "update", requestId |-> 0, edits |-> Some(es), content |-> content, untitled |-> FALSE]
\* Faulty variant: 'init' always carries the buffer, never the untitled flag
InitMsg_value(p, isUntitled, value) ==
    [to |-> p, type |-> "init", requestId |-> 0, edits |-> None,
     content |-> Some(value), untitled |-> FALSE]

InitMsg(p, isUntitled, value) ==
    [to |-> p, type |-> "init", requestId |-> 0, edits |-> None,
     content |-> IF isUntitled THEN None ELSE Some(value), untitled |-> isUntitled]

\* Faulty variant: only the first registered panel is told
ContentChanged_first(es, content) ==
    IF webviews = <<>> THEN <<>> ELSE <<UpdateMsg(webviews[1], es, content)>>

\* onDidChangeContent listener: one 'update' per registered panel
ContentChanged(es, content) == [i \in 1..Len(webviews) |-> UpdateMsg(webviews[i], es, content)]

Init ==
    /\ docState = "none"
    /\ untitled = FALSE
    /\ documentData = <<>>
    /\ edits = <<>>
    /\ savedEdits = <<>>
    /\ aliased = FALSE
    /\ webviews = <<>>
    /\ requestId = 1
    /\ callbacks = {}
    /\ requests = [i \in Ids |-> NoRequest]
    /\ reverting = 0
    /\ disk = [l \in Locs |-> IF l = "uri" THEN Some(FileOnDisk) ELSE Some(BackupOnDisk)]
    /\ undoStack = <<>>
    /\ redoStack = <<>>
    /\ hostSaved = <<>>
    /\ posted = <<>>
    /\ received = NoMsg
    /\ called = {}
    /\ finished = None
    /\ lastSaved = <<>>
    /\ preUndo = None

\* ------------------------------------------------------- document operations
\* A write through this._edits: it reaches _savedEdits too when both name one array
Mutate(arr) ==
    /\ edits' = arr
    /\ savedEdits' = IF aliased THEN arr ELSE savedEdits
    /\ aliased' = aliased

\* Faulty variant: the snapshot is assigned even when the awaited saveAs rejected
Assigns_failed(kind, result) == kind = "save"

\* Faulty variant: saveAs and backup assign the snapshot as save does
Assigns_any(kind, result) == result = "returned"

\* save(): line 129 runs exactly when the awaited saveAs resolved
Assigns(kind, result) == kind = "save" /\ result = "returned"

\* The end of save / saveAs / backup with the given result
Finish(kind, result) ==
    /\ edits' = edits
    /\ savedEdits' = IF Assigns(kind, result) THEN ArrayFrom(edits) ELSE savedEdits
    /\ aliased' = IF Assigns(kind, result) THEN FALSE ELSE aliased
    /\ lastSaved' = IF kind = "save" /\ result = "returned" THEN edits ELSE lastSaved
    /\ hostSaved' = IF kind = "save" /\ result = "returned" THEN undoStack ELSE hostSaved

\* Faulty variant: the check for an empty webview list is missing
NoWebview_never(ws) == FALSE

\* getFileData: no webview is registered for the document
NoWebview(ws) == Len(ws) = 0

\* getFileData: webviewsForDocument[0]
First(ws) == IF ws = <<>> THEN "undefined" ELSE ws[1]

\* Faulty variant: the identifier is not incremented
NextRequestId_same(id) == id

\* postMessageWithResponse: the value of _requestId after the call
NextRequestId(id) == id + 1

\* Faulty variant: a response resolves every entry of the map
Lookup_any(cbs, id) == cbs

\* Faulty variant: a response with a known identifier resolves the oldest entry
Lookup_oldest(cbs, id) ==
    IF id \in cbs THEN {CHOOSE m \in cbs : \A k \in cbs : m <= k} ELSE {}

\* onMessage 'response': the identifiers whose callback this._callbacks.get(id) yields
Lookup(cbs, id) == IF id \in cbs THEN {id} ELSE {}

\* onMessage 'response': the keys of the map after the callback was called
AfterResponse(cbs, id) == cbs

\* Faulty variant: the bytes written become the document's buffer
AfterWrite_written(data, written) == written

\* save / saveAs / backup: the byte buffer after the write; _documentData is not assigned
AfterWrite(data, written) == data

\* saveAs after getFileData resolved: the cancellation check before the write
SkipsWrite(cancelled) == cancelled

\* the steps that are no webview message, no undo and complete no host call
Quiet == received' = NoMsg /\ called' = {} /\ finished' = None /\ preUndo' = None

\* ------------------------------------------------------------------ actions
\* openCustomDocument -> BinaryDocument.create
OpenCustomDocument(isUntitled, hasBackup, readOk) ==
    /\ docState = "none"
    /\ LET reads == hasBackup \/ ~isUntitled
           bytes == IF hasBackup THEN readFile(FALSE, dataFile(hasBackup))
                    ELSE readFile(isUntitled, dataFile(hasBackup))
       IN  IF reads /\ ~readOk
           THEN /\ docState' = "failed"
                /\ UNCHANGED <<untitled, documentData>>
           ELSE /\ docState' = "open"
                /\ untitled' = isUntitled
                /\ documentData' = bytes
    /\ posted' = <<>>
    /\ Quiet
    /\ UNCHANGED <<editVars, webviews, bridgeVars, reverting, disk, hostVars, lastSaved>>

\* resolveCustomEditor: the panel is added to the collection
ResolveCustomEditor(p) ==
    /\ docState = "open"
    /\ p \notin Range(webviews)
    /\ webviews' = Append(webviews, p)
    /\ posted' = <<>>
    /\ Quiet
    /\ UNCHANGED <<docVars, editVars, bridgeVars, reverting, disk, hostVars, lastSaved>>

\* the panel is closed: the collection drops it
ClosePanel(p) ==
    /\ docState = "open"
    /\ p \in Range(webviews)
    /\ webviews' = SelectSeq(webviews, LAMBDA q : q # p)
    /\ posted' = <<>>
    /\ Quiet
    /\ UNCHANGED <<docVars, editVars, bridgeVars, reverting, disk, hostVars, lastSaved>>

\* a 'ready' message: the second onDidReceiveMessage listener answers with 'init'
ReceiveReady(p) ==
    /\ docState = "open"
    /\ p \in Range(webviews)
    /\ posted' = <<InitMsg(p, untitled, documentData)>>
    /\ received' = [type |-> "ready", requestId |-> 0]
    /\ called' = {}
    /\ finished' = None
    /\ preUndo' = None
    /\ UNCHANGED <<docVars, editVars, webviews, bridgeVars, reverting, disk, hostVars, lastSaved>>

\* an 'update' message: onMessage -> document.makeEdit
ReceiveUpdate(p, e) ==
    /\ docState = "open"
    /\ p \in Range(webviews)
    /\ Len(edits) < MaxEdits
    /\ Len(undoStack) < MaxEdits
    /\ Mutate(push(edits, e))
    /\ undoStack' = Append(undoStack, e)
    /\ redoStack' = <<>>
    /\ hostSaved' = hostSaved
    /\ posted' = <<>>
    /\ received' = [type |-> "update", requestId |-> 0]
    /\ called' = {}
    /\ finished' = None
    /\ preUndo' = None
    /\ UNCHANGED <<docVars, webviews, bridgeVars, reverting, disk, lastSaved>>

\* the host invokes the undo closure of the most recent edit not yet undone
Undo ==
    /\ docState = "open"
    /\ undoStack # <<>>
    /\ Mutate(pop(edits))
    /\ posted' = ContentChanged(pop(edits), None)
    /\ redoStack' = Append(redoStack, undoStack[Len(undoStack)])
    /\ undoStack' = SubSeq(undoStack, 1, Len(undoStack) - 1)
    /\ hostSaved' = hostSaved
    /\ received' = NoMsg
    /\ called' = {}
    /\ finished' = None
    /\ preUndo' = Some(edits)
    /\ UNCHANGED <<docVars, webviews, bridgeVars, reverting, disk, lastSaved>>

\* the host invokes the redo closure of the edit undone last
Redo ==
    /\ docState = "open"
    /\ redoStack # <<>>
    /\ Len(edits) < MaxEdits
    /\ LET e == redoStack[Len(redoStack)]
       IN  /\ Mutate(push(edits, e))
           /\ posted' = ContentChanged(push(edits, e), None)
           /\ undoStack' = Append(undoStack, e)
    /\ redoStack' = SubSeq(redoStack, 1, Len(redoStack) - 1)
    /\ hostSaved' = hostSaved
    /\ Quiet
    /\ UNCHANGED <<docVars, webviews, bridgeVars, reverting, disk, lastSaved>>

\* save / saveAs / backup up to the await of the webview's answer
StartWrite(kind, target) ==
    /\ docState = "open"
    /\ requestId <= MaxRequests
    /\ IF NoWebview(webviews)
       THEN /\ finished' = Outcome(kind, target, "threw", "noWebview", FALSE)
            /\ Finish(kind, "threw")
            /\ posted' = <<>>
            /\ UNCHANGED bridgeVars
       ELSE /\ requests' = [requests EXCEPT ![requestId] =
                               [NoRequest EXCEPT !.kind = kind, !.pc = "awaitResponse", !.target = target]]
            /\ requestId' = NextRequestId(requestId)
            /\ callbacks' = callbacks \cup {requestId}
            /\ posted' = <<RequestMsg(First(webviews), "getFileData", requestId)>>
            /\ finished' = None
            /\ UNCHANGED <<editVars, lastSaved, hostSaved>>
    /\ received' = NoMsg
    /\ called' = {}
    /\ preUndo' = None
    /\ UNCHANGED <<docVars, webviews, reverting, disk, undoStack, redoStack>>

Save == StartWrite("save", "uri")
SaveAs(target) == StartWrite("saveAs", target)
Backup == StartWrite("backup", "dest")

\* the host requests cancellation of a call that waits for the webview's answer
\* (the token is not read again once the write has started)
Cancel(i) ==
    /\ requests[i].pc = "awaitResponse"
    /\ ~requests[i].cancelled
    /\ requests' = [requests EXCEPT ![i].cancelled = TRUE]
    /\ posted' = <<>>
    /\ Quiet
    /\ UNCHANGED <<docVars, editVars, webviews, requestId, callbacks, reverting, disk, hostVars, lastSaved>>

\* a 'response' message: the callback resolves getFileData's promise and saveAs
\* runs on to the cancellation check and the start of the write
ReceiveResponse(p, id, body) ==
    /\ docState = "open"
    /\ p \in Range(webviews)
    /\ LET hit == Lookup(callbacks, id)
           resumed == {i \in Ids : requests[i].pc = "awaitResponse" /\ i \in hit}
           skipped == {i \in resumed : SkipsWrite(requests[i].cancelled)}
           saved == \E i \in skipped : Assigns(requests[i].kind, "returned")
       IN  /\ called' = hit
           /\ callbacks' = AfterResponse(callbacks, id)
           /\ requests' = [i \in Ids |->
                             IF i \notin resumed THEN requests[i]
                             ELSE IF i \in skipped THEN DoneRequest
                             ELSE [requests[i] EXCEPT !.pc = "writing", !.fileData = Uint8Array(body),
                                                          !.editsAt = IF requests[i].kind = "save" THEN edits ELSE <<>>]]
           /\ finished' = IF skipped = {} THEN None
                          ELSE LET i == CHOOSE j \in skipped : TRUE
                               IN  Outcome(requests[i].kind, requests[i].target, "returned", "none", FALSE)
           /\ IF saved THEN Finish("save", "returned")
                       ELSE UNCHANGED <<editVars, lastSaved, hostSaved>>
    /\ posted' = <<>>
    /\ received' = [type |-> "response", requestId |-> id]
    /\ preUndo' = None
    /\ UNCHANGED <<docVars, webviews, requestId, reverting, disk, undoStack, redoStack>>

\* workspace.fs.writeFile resolves
WriteOk(i) ==
    /\ requests[i].pc = "writing"
    /\ disk' = [disk EXCEPT ![requests[i].target] = Some(requests[i].fileData)]
    /\ requests' = [requests EXCEPT ![i] = DoneRequest]
    /\ Finish(requests[i].kind, "returned")
    /\ finished' = Outcome(requests[i].kind, requests[i].target, "returned", "none", TRUE)
    /\ documentData' = AfterWrite(documentData, requests[i].fileData)
    /\ posted' = <<>>
    /\ received' = NoMsg
    /\ called' = {}
    /\ preUndo' = None
    /\ UNCHANGED <<docState, untitled, webviews, requestId, callbacks, reverting, undoStack, redoStack>>

\* workspace.fs.writeFile rejects
WriteFail(i) ==
    /\ requests[i].pc = "writing"
    /\ requests' = [requests EXCEPT ![i] = DoneRequest]
    /\ Finish(requests[i].kind, "threw")
    /\ finished' = Outcome(requests[i].kind, requests[i].target, "threw", "io", FALSE)
    /\ posted' = <<>>
    /\ received' = NoMsg
    /\ called' = {}
    /\ preUndo' = None
    /\ UNCHANGED <<docVars, webviews, requestId, callbacks, reverting, disk, undoStack, redoStack>>

\* revert after readFile resolved with diskContent; the host goes back to its
\* save point, so its undo stack is the edit list revert is specified to restore
Reverted(diskContent) ==
    /\ documentData' = diskContent
    /\ edits' = savedEdits
    /\ savedEdits' = savedEdits
    /\ aliased' = TRUE
    /\ posted' = ContentChanged(savedEdits, Some(diskContent))
    /\ finished' = Outcome("revert", "uri", "returned", "none", FALSE)
    /\ undoStack' = hostSaved
    /\ redoStack' = <<>>
    /\ hostSaved' = hostSaved
    /\ UNCHANGED <<docState, untitled>>

\* revert up to the await of the read; an untitled resource is not read
Revert ==
    /\ docState = "open"
    /\ IF untitled
       THEN /\ Reverted(readFile(TRUE, "uri"))
            /\ UNCHANGED reverting
       ELSE /\ reverting < MaxReverts
            /\ reverting' = reverting + 1
            /\ posted' = <<>>
            /\ finished' = None
            /\ UNCHANGED <<docVars, editVars, hostVars>>
    /\ received' = NoMsg
    /\ called' = {}
    /\ preUndo' = None
    /\ UNCHANGED <<webviews, bridgeVars, disk, lastSaved>>

\* workspace.fs.readFile resolves
ReadOk ==
    /\ reverting > 0
    /\ disk["uri"] # None
    /\ reverting' = reverting - 1
    /\ Reverted(readFile(FALSE, "uri"))
    /\ received' = NoMsg
    /\ called' = {}
    /\ preUndo' = None
    /\ UNCHANGED <<webviews, bridgeVars, disk, lastSaved>>

\* workspace.fs.readFile rejects
ReadFail ==
    /\ reverting > 0
    /\ reverting' = reverting - 1
    /\ finished' = Outcome("revert", "uri", "threw", "io", FALSE)
    /\ posted' = <<>>
    /\ received' = NoMsg
    /\ called' = {}
    /\ preUndo' = None
    /\ UNCHANGED <<docVars, editVars, webviews, bridgeVars, disk, hostVars, lastSaved>>

\* ------------------------------------------------------------ specifications
\* The environment of one run: which panels attach, which edits the webview sends,
\* and whether the host starts a save / saveAs / backup while another one is
\* still in flight.  Every specification below runs all the handlers; they differ
\* in how much of this environment they explore.
OnePanel == {"p1"}
OneEdit == {"e1"}
Sequential == \A i \in Ids : requests[i].pc \in {"unissued", "done"}

Lifecycle(P, B) ==
    \/ \E u, r \in BOOLEAN, b \in B : OpenCustomDocument(u, b, r)
    \/ \E p \in P : ResolveCustomEditor(p)
    \/ \E p \in P : ClosePanel(p)
    \/ \E p \in P : ReceiveReady(p)

Editing(P, E) ==
    \/ \E p \in P, e \in E : ReceiveUpdate(p, e)
    \/ Undo
    \/ Redo

Writing(P) ==
    \/ \E p \in P, id \in 1..(MaxRequests + 1), body \in Bodies : ReceiveResponse(p, id, body)
    \/ \E i \in Ids : Cancel(i)
    \/ \E i \in Ids : WriteOk(i)
    \/ \E i \in Ids : WriteFail(i)

Reverting ==
    \/ Revert
    \/ ReadOk
    \/ ReadFail

\* one panel, no backup, both edit values, host calls that write one after the other
Next ==
    \/ Lifecycle(OnePanel, {FALSE})
    \/ Editing(OnePanel, Edits)
    \/ Sequential /\ Save
    \/ \E l \in Locs : Sequential /\ SaveAs(l)
    \/ Sequential /\ Backup
    \/ Writing(OnePanel)
    \/ Reverting

Spec == Init /\ [][Next]_vars

\* one panel, no backup, one edit value, host calls that write overlapping freely
NextBridge ==
    \/ Lifecycle(OnePanel, {FALSE})
    \/ Editing(OnePanel, OneEdit)
    \/ Save
    \/ \E l \in Locs : SaveAs(l)
    \/ Backup
    \/ Writing(OnePanel)
    \/ Reverting

SpecBridge == Init /\ [][NextBridge]_vars

\* as Spec with a backup to open from and overlapping host calls; the host never reverts
NextEditing ==
    \/ Lifecycle(OnePanel, BOOLEAN)
    \/ Editing(OnePanel, Edits)
    \/ Save
    \/ \E l \in Locs : SaveAs(l)
    \/ Backup
    \/ Writing(OnePanel)

SpecEditing == Init /\ [][NextEditing]_vars

\* as SpecEditing, and the host invokes no undo and no redo closure either
NextFifo ==
    \/ Lifecycle(OnePanel, BOOLEAN)
    \/ \E p \in OnePanel, e \in Edits : ReceiveUpdate(p, e)
    \/ Save
    \/ \E l \in Locs : SaveAs(l)
    \/ Backup
    \/ Writing(OnePanel)

SpecFifo == Init /\ [][NextFifo]_vars

\* two panels on the document, a backup to open from, one edit value, host calls
\* that write one after the other
NextPanels ==
    \/ Lifecycle(Panels, BOOLEAN)
    \/ Editing(Panels, OneEdit)
    \/ Sequential /\ Save
    \/ Sequential /\ Backup
    \/ Writing(Panels)
    \/ Reverting

SpecPanels == Init /\ [][NextPanels]_vars

TypeOK ==
    /\ docState \in {"none", "open", "failed"}
    /\ aliased => edits = savedEdits
    /\ \A i \in Ids : requests[i].pc \in {"unissued", "awaitResponse", "writing", "done"}

\* ------------------------------------------------------------------ claims
\* the promise of request i is settled
Resolved(i) == requests[i].pc \in {"writing", "done"}
\* identifier id was handed out by postMessageWithResponse
Issued(id) == id \in Ids /\ requests[id].pc # "unissued"
\* the last step completed a host call of this kind with this result
Completed(kind, result) ==
    finished # None /\ finished[1].kind = kind /\ finished[1].result = result

\* C1: the saved-edit snapshot is, in every state, the edit list as it was when
\* the last Save at the original location completed (empty before the first):
\* nothing but Save's assignment changes it.  Violated: revert makes _edits and
\* _savedEdits one array, and the next edit or undo writes through to the snapshot.
C1_SnapshotChangedOnlyBySave == savedEdits = lastSaved

\* C2: a Save whose cancellation is requested when the webview's answer arrives
\* writes nothing and leaves the saved-edit snapshot as it was.  Violated: save()
\* assigns the snapshot after saveAs returned early.
C2_CancelledSaveKeepsSnapshot ==
    [][\A i \in Ids :
          (/\ requests[i].pc = "awaitResponse"
           /\ requests[i].kind = "save"
           /\ requests[i].cancelled
           /\ requests'[i].pc # "awaitResponse")
          => (disk' = disk /\ savedEdits' = savedEdits)]_vars

\* C3: once the response for an identifier was processed the map holds no entry
\* for it, and a later response with that identifier invokes no callback.
\* Violated: onMessage never deletes from the map.
C3_EntryRemovedAndCalledOnce ==
    [][/\ \A i \in Ids : Resolved(i)' => i \notin callbacks'
       /\ \A i \in Ids : Resolved(i) => i \notin called']_vars

\* C4: when Revert completes the edit list is the snapshot taken by the last Save
\* at the original location: every edit applied since is gone.  Violated: after
\* an earlier revert the snapshot array collected the edits applied since (C1).
C4_RevertRestoresLastSaved == Completed("revert", "returned") => edits = lastSaved

\* C5: as long as the host does not revert, the edit list is exactly the edits
\* applied and not undone, in the order applied (N applied, M undone: the first
\* N - M), and an undo removed exactly the last element, the edit it belongs to.
C5_UndoIsLifo ==
    /\ edits = undoStack
    /\ preUndo # None =>
          /\ redoStack # <<>>
          /\ preUndo[1] = Append(edits, redoStack[Len(redoStack)])
          /\ Len(edits) = Len(preUndo[1]) - 1

\* C5: two edits were applied and the second one undone
C5_Witness ==
    /\ preUndo # None
    /\ Len(preUndo[1]) = 2
    /\ preUndo[1][1] # preUndo[1][2]
    /\ Len(edits) = 1

\* C6: a redo right after an undo gives the edit list its value from before the
\* undo.  Violated: after a revert the array holds edits the host no longer
\* counts (C1), undo pops one of those and redo pushes a different edit.
C6_RedoRestoresPreUndo == [][(preUndo # None /\ Redo) => edits' = preUndo[1]]_vars

\* C7: the identifiers handed out are exactly 1 .. _requestId - 1; a step changes
\* _requestId only by handing out its current value in a request message and
\* adding one; 'update' and 'init' notifications carry no identifier and leave
\* _requestId alone.
C7_IdsStrictlyIncrease ==
    [][/\ \A i \in Ids : Issued(i)' <=> i < requestId'
       /\ requestId' # requestId =>
             /\ requestId' = requestId + 1
             /\ ~Issued(requestId)
             /\ \E k \in 1..Len(posted') : posted'[k].requestId = requestId
       /\ \A k \in 1..Len(posted') :
             IF posted'[k].type \in {"update", "init"}
             THEN posted'[k].requestId = 0 /\ requestId' = requestId
             ELSE posted'[k].requestId = requestId /\ requestId' = requestId + 1]_vars

\* C7: two identifiers were handed out, a notification was the last thing sent
C7_Witness ==
    /\ requestId = 3
    /\ \A i \in Ids : Issued(i)
    /\ posted # <<>>
    /\ posted[1].type \in {"update", "init"}

\* C8: a request leaves its pending state only in the step that processes a
\* response carrying its identifier, and a settled request stays settled.
C8_ResolvedByOwnResponse ==
    [][\A i \in Ids :
          /\ (requests[i].pc = "awaitResponse" /\ requests'[i].pc # "awaitResponse")
                => (received'.type = "response" /\ received'.requestId = i /\ called' = {i})
          /\ Resolved(i) => Resolved(i)']_vars

\* C8: the response for the second request came first; the first is still pending
C8_Witness ==
    /\ requests[1].pc = "awaitResponse"
    /\ Resolved(2)
    /\ received = [type |-> "response", requestId |-> 2]

\* C9: a response whose identifier was never handed out invokes no callback,
\* completes no call and changes nothing of the bridge or the document.
C9_UnknownResponseIgnored ==
    [][(received'.type = "response" /\ ~Issued(received'.requestId))
          => /\ called' = {}
             /\ finished' = None
             /\ posted' = <<>>
             /\ UNCHANGED <<requests, requestId, callbacks, edits, savedEdits, aliased,
                            documentData, disk>>]_vars

\* C9: such a response was processed while a request was pending
C9_Witness ==
    /\ received.type = "response"
    /\ ~Issued(received.requestId)
    /\ \E i \in Ids : requests[i].pc = "awaitResponse"
    /\ edits # savedEdits

\* C10: Save, SaveAs or Backup with no webview registered throws at once: no
\* identifier, no map entry, no message, no write, snapshot and edit list as before.
C10_NoSurfaceAborts ==
    [][(webviews = <<>> /\ (Save \/ (\E l \in Locs : SaveAs(l)) \/ Backup))
          => /\ finished' # None
             /\ finished'[1].result = "threw"
             /\ finished'[1].err = "noWebview"
             /\ finished'[1].wrote = FALSE
             /\ posted' = <<>>
             /\ UNCHANGED <<requests, requestId, callbacks, edits, savedEdits, aliased, disk>>]_vars

\* C10: a Save was refused for want of a webview while unsaved edits existed
C10_Witness ==
    /\ webviews = <<>>
    /\ Completed("save", "threw")
    /\ finished[1].err = "noWebview"
    /\ edits # savedEdits

\* C11: when the write of a Save fails, the call rejects with the I/O error,
\* the edit list, the snapshot and the disk stay as they were, and the call is
\* over: it never starts a second write.
C11_FailedSaveReportedOnce ==
    [][\A i \in Ids :
          /\ (requests[i].kind = "save" /\ WriteFail(i))
                => /\ finished' = Outcome("save", "uri", "threw", "io", FALSE)
                   /\ requests'[i].pc = "done"
                   /\ UNCHANGED <<edits, savedEdits, aliased, disk>>
          /\ requests[i].pc = "done" => requests'[i].pc = "done"]_vars

\* C11: a Save with unsaved edits has just failed in its write
C11_Witness ==
    /\ Completed("save", "threw")
    /\ finished[1].err = "io"
    /\ edits # savedEdits
    /\ disk["uri"] = Some(FileOnDisk)

\* C12: a SaveAs or Backup that completes its write has put the bytes getFileData
\* returned at its destination and nowhere else, a cancelled or failed one has
\* written nothing, and in both cases edit list and snapshot are as before; a
\* host call whose completion changes the snapshot is a Save.
C12_SaveAsBackupFrame ==
    [][/\ \A i \in Ids :
             (/\ requests[i].kind \in {"saveAs", "backup"}
              /\ requests[i].pc \in {"awaitResponse", "writing"}
              /\ requests'[i].pc = "done")
             => /\ UNCHANGED <<edits, savedEdits, aliased>>
                /\ finished' # None
                /\ finished'[1].kind = requests[i].kind
                /\ disk' = IF finished'[1].wrote
                           THEN [disk EXCEPT ![requests[i].target] = Some(requests[i].fileData)]
                           ELSE disk
       /\ (finished' # None /\ savedEdits' # savedEdits) => finished'[1].kind = "save"]_vars

\* C12: a Backup has written the webview's bytes to its destination while the
\* resource itself and the unsaved edits are untouched
C12_Witness ==
    /\ Completed("backup", "returned")
    /\ finished[1].wrote
    /\ disk["dest"] = Some(<<1>>)
    /\ disk["uri"] = Some(FileOnDisk)
    /\ edits # savedEdits

\* C13: without undo, redo and revert the edit list is the edits of the 'update'
\* messages processed so far, in processing order: an 'update' carrying e appends
\* e at the end, and every other step (responses, saves, backups, writes
\* completing, cancellations, 'ready') leaves the list as it is.
C13_UpdatesAppliedFifo ==
    [][/\ \A p \in OnePanel, e \in Edits : ReceiveUpdate(p, e) => edits' = Append(edits, e)
       /\ received'.type # "update" => edits' = edits
       /\ edits' = undoStack']_vars

\* C13: a second, different edit was applied while a write was in flight and
\* after a Save had recorded the first
C13_Witness ==
    /\ received.type = "update"
    /\ Len(edits) = 2
    /\ edits[1] # edits[2]
    /\ savedEdits = <<edits[1]>>
    /\ \E i \in Ids : requests[i].pc = "writing"

\* C14: openCustomDocument either fails, exactly when a file has to be read (a
\* backup is given or the resource is not untitled) and that read fails, and
\* then there is no document and nothing further happens; or it yields a
\* document with empty edit list and empty snapshot whose buffer is the backup's
\* bytes if a backup is given, else empty for an untitled resource (whatever
\* the file system would have answered), else the resource's bytes.
C14_OpenLoadsInitialBytes ==
    [][/\ \A u, b, r \in BOOLEAN :
             OpenCustomDocument(u, b, r) =>
                IF (b \/ ~u) /\ ~r
                THEN docState' = "failed" /\ documentData' = <<>>
                ELSE /\ docState' = "open"
                     /\ untitled' = u
                     /\ edits' = <<>> /\ savedEdits' = <<>> /\ ~aliased'
                     /\ documentData' = IF b THEN disk["dest"][1]
                                        ELSE IF u THEN <<>> ELSE disk["uri"][1]
       /\ docState = "failed" => UNCHANGED vars]_vars

\* C14: an untitled resource was opened from its backup
C14_Witness ==
    /\ docState = "open"
    /\ untitled
    /\ documentData = BackupOnDisk
    /\ edits = <<>>
    /\ webviews = <<>>

\* C15: a save / saveAs / backup that waits for the webview's answer stays exactly
\* there in every step that is not the processing of a response with its own
\* identifier: it starts no write and does not complete, however many other
\* steps are taken.  The disk changes only by the write of a call that got
\* such a response, line 129 runs only in a step in which a Save leaves, and
\* an error is reported only by a call that leaves or that never issued a
\* request (no webview).
C15_PendingUntilOwnResponse ==
    [][/\ \A i \in Ids :
             (/\ requests[i].pc = "awaitResponse"
              /\ ~(received'.type = "response" /\ received'.requestId = i))
             => /\ requests'[i].pc = "awaitResponse"
                /\ requests'[i].kind = requests[i].kind
                /\ requests'[i].target = requests[i].target
       /\ disk' # disk =>
             \E i \in Ids : /\ requests[i].pc = "writing"
                             /\ requests'[i].pc = "done"
                             /\ disk' = [disk EXCEPT ![requests[i].target] = Some(requests[i].fileData)]
       /\ requests' # requests /\ (\E i \in Ids : requests'[i].pc = "writing" /\ requests[i].pc # "writing")
             => received'.type = "response"
       /\ lastSaved' # lastSaved =>
             \E i \in Ids : /\ requests[i].kind = "save"
                             /\ requests[i].pc \in {"awaitResponse", "writing"}
                             /\ requests'[i].pc = "done"
       /\ (finished' # None /\ finished'[1].kind # "revert" /\ finished'[1].result = "threw")
             => \/ finished'[1].err = "noWebview" /\ requests' = requests
                \/ \E i \in Ids : requests[i].pc = "writing" /\ requests'[i].pc = "done"]_vars

\* C15: a Save still waits for its answer although a Backup started after it was
\* answered and has written, and edits are unsaved
C15_Witness ==
    /\ requests[1].pc = "awaitResponse"
    /\ requests[1].kind = "save"
    /\ requests[2] = DoneRequest
    /\ disk["dest"] = Some(<<1>>)
    /\ disk["uri"] = Some(FileOnDisk)
    /\ edits # savedEdits
    /\ lastSaved = <<>>

\* C16: an undo removes exactly the last element of the edit list, a redo appends
\* exactly one; either sends each panel one 'update' with the resulting list and
\* no content, and leaves _requestId, the callback map, the pending requests,
\* the byte buffer, the snapshot and the disk as they were.  Violated: once
\* revert has made _edits and _savedEdits one array (C1), the pop or push of an
\* undo or redo changes the snapshot as well.
C16_UndoRedoTouchOnlyEditList ==
    [][(Undo \/ Redo) =>
          /\ \/ Undo /\ edits # <<>> /\ edits = Append(edits', edits[Len(edits)])
             \/ Redo /\ \E e \in Edits : edits' = Append(edits, e)
          /\ posted' = [i \in 1..Len(webviews) |-> UpdateMsg(webviews[i], edits', None)]
          /\ UNCHANGED <<requestId, callbacks, requests, documentData, savedEdits, disk>>]_vars

\* C17: the step in which a revert completes stores as byte buffer the bytes of
\* the document's own resource (empty for an untitled one, never the backup's)
\* and sends every panel registered at that moment exactly one 'update' carrying
\* these bytes and the edit list as revert left it; a revert that fails, or
\* still waits for its read, sends nothing and keeps the buffer.
C17_RevertReloadsAndNotifies ==
    [][/\ Completed("revert", "returned")' =>
             /\ documentData' = IF untitled THEN <<>> ELSE disk["uri"][1]
             /\ posted' = [i \in 1..Len(webviews') |->
                              UpdateMsg(webviews'[i], edits', Some(documentData'))]
       /\ (reverting' # reverting /\ ~Completed("revert", "returned")') =>
             posted' = <<>> /\ documentData' = documentData]_vars

\* C17: a revert completed with two panels attached, after a Save had replaced
\* the resource's bytes and while the backup file still has its own
C17_Witness ==
    /\ Completed("revert", "returned")
    /\ Len(webviews) = 2
    /\ Len(posted) = 2
    /\ posted[2].to = webviews[2]
    /\ documentData = <<1>>
    /\ disk["dest"] = Some(BackupOnDisk)
    /\ edits # <<>>

\* C18: a 'ready' message from a registered panel makes the provider send exactly
\* one message, an 'init' to that very panel, which carries the untitled flag
\* and no bytes when the resource is untitled and otherwise the current byte
\* buffer; edit list, snapshot, callback map, _requestId, the pending requests
\* and the buffer are as before.
C18_ReadyAnsweredByInit ==
    [][\A p \in Panels :
          ReceiveReady(p) =>
             /\ Len(posted') = 1
             /\ posted'[1].to = p
             /\ posted'[1].type = "init"
             /\ posted'[1].untitled = untitled
             /\ posted'[1].content = IF untitled THEN None ELSE Some(documentData)
             /\ posted'[1].edits = None
             /\ UNCHANGED <<edits, savedEdits, aliased, callbacks, requestId, requests,
                            documentData, webviews>>]_vars

\* C18: the second of two panels sent 'ready' after a revert had reloaded the
\* bytes a Save wrote, while the callback map has entries and edits are unsaved
C18_Witness ==
    /\ received.type = "ready"
    /\ ~untitled
    /\ webviews = <<"p1", "p2">>
    /\ posted = <<InitMsg("p2", FALSE, <<1>>)>>
    /\ callbacks # {}
    /\ edits # savedEdits

\* C19: the snapshot a Save records when its write completes holds only edits
\* that were in the edit list when the bytes it wrote were handed over: it is
\* that list or a prefix of it.  Violated: line 129 copies the list as it is
\* when the write has finished, with the edits applied during the write.
C19_SnapshotMatchesWrittenBytes ==
    [][\A i \in Ids :
          (requests[i].kind = "save" /\ WriteOk(i)) =>
             /\ Len(savedEdits') <= Len(requests[i].editsAt)
             /\ savedEdits' = SubSeq(requests[i].editsAt, 1, Len(savedEdits'))]_vars

\* C20: the byte buffer changes only in the step in which openCustomDocument
\* returns the document or in which a revert completes; messages, undo, redo,
\* save, saveAs, backup and their writes leave it alone.  So the bytes of an
\* 'init' are the buffer as Open or the last Revert left it, whatever was
\* written to the resource since.
C20_BufferSetByOpenAndRevertOnly ==
    [][/\ documentData' # documentData =>
             \/ docState = "none" /\ docState' = "open"
             \/ Completed("revert", "returned")'
       /\ (received'.type \in {"update", "response", "ready"} \/ preUndo' # None \/ Redo
              \/ (finished' # None /\ finished'[1].kind \in {"save", "saveAs", "backup"}))
             => documentData' = documentData
       /\ \A k \in 1..Len(posted') :
             (posted'[k].type = "init" /\ ~posted'[k].untitled)
                => posted'[k].content = Some(documentData)]_vars

\* C20: an 'init' carries the bytes read at Open although a Save has written
\* other bytes to the resource since
C20_Witness ==
    /\ received.type = "ready"
    /\ ~untitled
    /\ posted[1].content = Some(FileOnDisk)
    /\ disk["uri"] = Some(<<1>>)
    /\ lastSaved # <<>>


=============================================================================
